---------------------------- MODULE Spec2Model ----------------------------
(***************************************************************************)
(* The two command-line entry points of skills/javascriptkit/scripts:      *)
(* install-sdk.py (detect the compiler identity, resolve a matching Swift  *)
(* SDK for WebAssembly in the swift.org catalogs, run `swift sdk install`) *)
(* and doctor.py (environment checks).                                     *)
(*                                                                         *)
(* Python strings are sequences of one-character strings, so that prefix,  *)
(* suffix, substring, replace and the regular expressions of the scripts   *)
(* are computed character by character.  Optional values (Python None) are *)
(* sequences of length 0 or 1.  Everything the scripts obtain from outside *)
(* (subprocess results, HTTP responses, PATH lookups) is drawn from small  *)
(* sets by the action that makes the call.                                 *)
(***************************************************************************)
EXTENDS Integers, Sequences, FiniteSets, TLC

VARIABLES
    prog,            \* which script runs: "install" or "doctor"
    pc,              \* position in main()
    target_info,     \* outcome of `swiftc -print-target-info` (None: not run yet)
    version_out,     \* outcome of `swiftc --version` (None: not run)
    version_id,      \* install-sdk main: version_id
    branches_to_try, \* find_dev_sdk: branches_to_try
    bidx,            \* find_dev_sdk: position of the loop over branches_to_try
    call_site,       \* which call of find_release_sdk is running
    sdk_info,        \* install-sdk main: sdk_info
    lookups,         \* history: the lookups made, with their results
    fetched,         \* history: every fetch_json call, with its response
    installs,        \* history: every `swift sdk install` invocation
    swiftc_found,    \* doctor main: result of check_cmd("swiftc", ...)
    compiler_tag,    \* doctor main: compiler_tag
    sdk_list,        \* doctor main: sdk_list (None: not read yet)
    printed,         \* the lines printed so far
    exit_code,       \* the process exit status (meaningful when pc = "done")
    installed,       \* the SDK bundles the toolchain has installed
    prev_install     \* history: the identity and bundle of a preceding
                     \* successful install-sdk run

vars == <<prog, pc, target_info, version_out, version_id, branches_to_try,
          bidx, call_site, sdk_info, lookups, fetched, installs,
          swiftc_found, compiler_tag, sdk_list, printed, exit_code,
          installed, prev_install>>

-----------------------------------------------------------------------------
(* Bounds of the model *)

\* longest release catalog returned by the release endpoint
MaxReleases == 2

\* longest snapshot catalog returned by a per-branch endpoint
MaxSnapshots == 2

-----------------------------------------------------------------------------
(* String literals of the two scripts *)

\* "swiftlang-"   (install-sdk.py:108, doctor.py:40)
VENDOR_PREFIX ==
    <<"s","w","i","f","t","l","a","n","g","-">>

\* "swift-"   (install-sdk.py:52,71,80; doctor.py:62)
SWIFT_PREFIX ==
    <<"s","w","i","f","t","-">>

\* "-RELEASE"   (install-sdk.py:52,117; doctor.py:62)
RELEASE_SUFFIX ==
    <<"-","R","E","L","E","A","S","E">>

\* "DEVELOPMENT"   (install-sdk.py:78)
DEVELOPMENT ==
    <<"D","E","V","E","L","O","P","M","E","N","T">>

\* "-DEVELOPMENT"   (install-sdk.py:71)
DASH_DEVELOPMENT ==
    <<"-","D","E","V","E","L","O","P","M","E","N","T">>

\* "main"   (install-sdk.py:72,77)
MAIN ==
    <<"m","a","i","n">>

\* "-branch"   (install-sdk.py:74)
BRANCH_SUFFIX ==
    <<"-","b","r","a","n","c","h">>

\* "-release"   (install-sdk.py:82)
RELEASE_BRANCH_SUFFIX ==
    <<"-","r","e","l","e","a","s","e">>

\* "wasm-sdk"   (install-sdk.py:58)
WASM_SDK ==
    <<"w","a","s","m","-","s","d","k">>

\* "already installed"   (install-sdk.py:141)
ALREADY_INSTALLED ==
    <<"a","l","r","e","a","d","y"," ","i","n","s","t","a","l","l","e","d">>

\* "wasm"   (doctor.py:66)
WASM ==
    <<"w","a","s","m">>

\* "Swift version "   (install-sdk.py:28)
SWIFT_VERSION ==
    <<"S","w","i","f","t"," ","v","e","r","s","i","o","n"," ">>

\* "(swift-"   (install-sdk.py:23)
OPEN_SWIFT ==
    <<"(","s","w","i","f","t","-">>

\* "https://www.swift.org/api/v1/install/releases.json"   (install-sdk.py:46)
RELEASES_URL ==
    <<"h","t","t","p","s",":","/","/","w","w","w",".","s","w","i","f","t",
      ".","o","r","g","/","a","p","i","/","v","1","/","i","n","s","t","a",
      "l","l","/","r","e","l","e","a","s","e","s",".","j","s","o","n">>

\* "https://www.swift.org/api/v1/install/dev/"   (install-sdk.py:85)
DEV_URL_BASE ==
    <<"h","t","t","p","s",":","/","/","w","w","w",".","s","w","i","f","t",
      ".","o","r","g","/","a","p","i","/","v","1","/","i","n","s","t","a",
      "l","l","/","d","e","v","/">>

\* "/wasm-sdk.json"   (install-sdk.py:85)
DEV_URL_TAIL ==
    <<"/","w","a","s","m","-","s","d","k",".","j","s","o","n">>

\* "https://download.swift.org/swift-"   (install-sdk.py:61)
RELEASE_DL_BASE ==
    <<"h","t","t","p","s",":","/","/","d","o","w","n","l","o","a","d",".",
      "s","w","i","f","t",".","o","r","g","/","s","w","i","f","t","-">>

\* "-release/wasm-sdk/"   (install-sdk.py:61)
RELEASE_DL_MID ==
    <<"-","r","e","l","e","a","s","e","/","w","a","s","m","-","s","d","k",
      "/">>

\* "_wasm.artifactbundle.tar.gz"   (install-sdk.py:61)
RELEASE_DL_TAIL ==
    <<"_","w","a","s","m",".","a","r","t","i","f","a","c","t","b","u","n",
      "d","l","e",".","t","a","r",".","g","z">>

\* "https://download.swift.org/development/wasm-sdk/"   (install-sdk.py:94)
DEV_DL_BASE ==
    <<"h","t","t","p","s",":","/","/","d","o","w","n","l","o","a","d",".",
      "s","w","i","f","t",".","o","r","g","/","d","e","v","e","l","o","p",
      "m","e","n","t","/","w","a","s","m","-","s","d","k","/">>

\* "/"   (install-sdk.py:61,94)
SLASH ==
    <<"/">>

-----------------------------------------------------------------------------
(* Python values *)

None == <<>>
Some(x) == <<x>>

\* str.startswith
StartsWith(s, p) == Len(s) >= Len(p) /\ SubSeq(s, 1, Len(p)) = p

\* whether p occurs in s at position i
OccursAt(s, i, p) ==
    i + Len(p) - 1 <= Len(s) /\ SubSeq(s, i, i + Len(p) - 1) = p

\* str.endswith
EndsWith(s, p) ==
    Len(s) >= Len(p) /\ SubSeq(s, Len(s) - Len(p) + 1, Len(s)) = p

\* t in s
Contains(s, t) ==
    \E i \in 0..(Len(s) - Len(t)) : SubSeq(s, i + 1, i + Len(t)) = t

\* s.replace(old, ""), old not empty: every non-overlapping occurrence, left
\* to right
RECURSIVE Remove(_, _)
Remove(s, old) ==
    IF Len(s) < Len(old) THEN s
    ELSE IF SubSeq(s, 1, Len(old)) = old
         THEN Remove(SubSeq(s, Len(old) + 1, Len(s)), old)
         ELSE <<Head(s)>> \o Remove(Tail(s), old)

UpperCase == <<"A","B","C","D","E","F","G","H","I","J","K","L","M",
               "N","O","P","Q","R","S","T","U","V","W","X","Y","Z">>
LowerCase == <<"a","b","c","d","e","f","g","h","i","j","k","l","m",
               "n","o","p","q","r","s","t","u","v","w","x","y","z">>

\* str.lower
Lower(s) ==
    [i \in 1..Len(s) |->
        IF \E k \in 1..Len(UpperCase) : UpperCase[k] = s[i]
        THEN LowerCase[CHOOSE k \in 1..Len(UpperCase) : UpperCase[k] = s[i]]
        ELSE s[i]]

\* the character class [0-9.]
VersionChars == {"0","1","2","3","4","5","6","7","8","9","."}

\* length of the longest run of [0-9.] in s that starts at position i
RECURSIVE RunLen(_, _)
RunLen(s, i) ==
    IF i <= Len(s) /\ s[i] \in VersionChars THEN 1 + RunLen(s, i + 1) ELSE 0

\* re.match(r"^[0-9.]+$", s): `$` also matches before a final newline
IsBareNumeric(s) ==
    LET body == IF Len(s) > 0 /\ s[Len(s)] = "\n"
                THEN SubSeq(s, 1, Len(s) - 1) ELSE s
    IN  Len(body) > 0 /\ \A i \in 1..Len(body) : body[i] \in VersionChars

\* re.search(r"[0-9.]+", s)
HasVersionChars(s) == \E i \in 1..Len(s) : s[i] \in VersionChars

\* re.match(r"swift-([0-9.]+)", s): group 1, or None.  The group is greedy.
SwiftVersionPrefix(s) ==
    IF StartsWith(s, SWIFT_PREFIX) /\ RunLen(s, Len(SWIFT_PREFIX) + 1) > 0
    THEN Some(SubSeq(s, Len(SWIFT_PREFIX) + 1,
                     Len(SWIFT_PREFIX) + RunLen(s, Len(SWIFT_PREFIX) + 1)))
    ELSE None

\* re.match(r"swift-([0-9.]+)-DEVELOPMENT", s): group 1, or None.  A shorter
\* group would have to be followed by "-", which is not in [0-9.], so only the
\* longest run can match.
SwiftDevelopmentPrefix(s) ==
    LET v == SwiftVersionPrefix(s)
    IN  IF v # None
           /\ StartsWith(SubSeq(s, Len(SWIFT_PREFIX) + Len(v[1]) + 1, Len(s)),
                         DASH_DEVELOPMENT)
        THEN v ELSE None

-----------------------------------------------------------------------------
(* Strings of the environment: compiler tags, command outputs, catalog fields *)

\* "swift-6.2.3-RELEASE"   (install-sdk.py:45)
ID_RELEASE ==
    <<"s","w","i","f","t","-","6",".","2",".","3","-","R","E","L","E","A",
      "S","E">>

\* "6.2.3"   (install-sdk.py:45)
ID_BARE ==
    <<"6",".","2",".","3">>

\* "swift-6.2-DEVELOPMENT-SNAPSHOT-2024-12-10-a"   (install-sdk.py:69)
ID_DEV62 ==
    <<"s","w","i","f","t","-","6",".","2","-","D","E","V","E","L","O","P",
      "M","E","N","T","-","S","N","A","P","S","H","O","T","-","2","0","2",
      "4","-","1","2","-","1","0","-","a">>

\* "swift-DEVELOPMENT-SNAPSHOT-2024-12-10-a"   (a trunk snapshot tag, install-sdk.py:91-92)
ID_DEVMAIN ==
    <<"s","w","i","f","t","-","D","E","V","E","L","O","P","M","E","N","T",
      "-","S","N","A","P","S","H","O","T","-","2","0","2","4","-","1","2",
      "-","1","0","-","a">>

\* "swift-DEVELOPMENT-SNAPSHOT"   (a snapshot tag without date: neither digit nor dot)
ID_NODATE ==
    <<"s","w","i","f","t","-","D","E","V","E","L","O","P","M","E","N","T",
      "-","S","N","A","P","S","H","O","T">>

\* "swiftlang-5.9"   (a vendor (Xcode) tag)
ID_XCODE ==
    <<"s","w","i","f","t","l","a","n","g","-","5",".","9">>

\* "Swift version 6.2.3 (swift-6.2.3-RELEASE)"   (swiftc --version of a release toolchain, as at install-sdk.py:21)
VO_RELEASE ==
    <<"S","w","i","f","t"," ","v","e","r","s","i","o","n"," ","6",".","2",
      ".","3"," ","(","s","w","i","f","t","-","6",".","2",".","3","-","R",
      "E","L","E","A","S","E",")">>

\* "Apple Swift version 5.9 (swiftlang-5.9 clang-1500)"   (swiftc --version, Xcode toolchain)
VO_XCODE ==
    <<"A","p","p","l","e"," ","S","w","i","f","t"," ","v","e","r","s","i",
      "o","n"," ","5",".","9"," ","(","s","w","i","f","t","l","a","n","g",
      "-","5",".","9"," ","c","l","a","n","g","-","1","5","0","0",")">>

\* "Swift version 6.2.3"   (swiftc --version without a parenthesized tag)
VO_PLAIN ==
    <<"S","w","i","f","t"," ","v","e","r","s","i","o","n"," ","6",".","2",
      ".","3">>

\* "swift-driver version: 1.87"   (swiftc --version output with nothing to extract)
VO_OTHER ==
    <<"s","w","i","f","t","-","d","r","i","v","e","r"," ","v","e","r","s",
      "i","o","n",":"," ","1",".","8","7">>

\* "6.2.3"   (release name)
NAME_623 ==
    <<"6",".","2",".","3">>

\* "swift-6.2.3-RELEASE"   (release tag)
TAG_623 ==
    <<"s","w","i","f","t","-","6",".","2",".","3","-","R","E","L","E","A",
      "S","E">>

\* "swift-6.2.3-RELEASE-b"   (a second tag of the same release name)
TAG_623B ==
    <<"s","w","i","f","t","-","6",".","2",".","3","-","R","E","L","E","A",
      "S","E","-","b">>

\* "static-sdk"   (another platform identifier)
P_STATIC ==
    <<"s","t","a","t","i","c","-","s","d","k">>

\* "abc123"   (checksum)
SUM_A ==
    <<"a","b","c","1","2","3">>

\* "def456"   (checksum)
SUM_B ==
    <<"d","e","f","4","5","6">>

\* "0f0f0f"   (checksum)
SUM_C ==
    <<"0","f","0","f","0","f">>

\* "swift-6.2-DEVELOPMENT-SNAPSHOT-2024-12-10-a"   (snapshot directory)
DIR_DEV62 ==
    <<"s","w","i","f","t","-","6",".","2","-","D","E","V","E","L","O","P",
      "M","E","N","T","-","S","N","A","P","S","H","O","T","-","2","0","2",
      "4","-","1","2","-","1","0","-","a">>

\* "swift-DEVELOPMENT-SNAPSHOT-2024-12-10-a"   (snapshot directory, install-sdk.py:91)
DIR_MAIN ==
    <<"s","w","i","f","t","-","D","E","V","E","L","O","P","M","E","N","T",
      "-","S","N","A","P","S","H","O","T","-","2","0","2","4","-","1","2",
      "-","1","0","-","a">>

\* "DEVELOPMENT-SNAPSHOT-2024-12-10-a"   (snapshot directory without the swift- prefix)
DIR_BARE ==
    <<"D","E","V","E","L","O","P","M","E","N","T","-","S","N","A","P","S",
      "H","O","T","-","2","0","2","4","-","1","2","-","1","0","-","a">>

\* "swift-6.2-wasm.artifactbundle.zip"   (snapshot download file name)
DL_DEV62 ==
    <<"s","w","i","f","t","-","6",".","2","-","w","a","s","m",".","a","r",
      "t","i","f","a","c","t","b","u","n","d","l","e",".","z","i","p">>

\* "swift-wasm.artifactbundle.zip"   (snapshot download file name)
DL_MAIN ==
    <<"s","w","i","f","t","-","w","a","s","m",".","a","r","t","i","f","a",
      "c","t","b","u","n","d","l","e",".","z","i","p">>

\* "wasm.artifactbundle.zip"   (snapshot download file name)
DL_BARE ==
    <<"w","a","s","m",".","a","r","t","i","f","a","c","t","b","u","n","d",
      "l","e",".","z","i","p">>

\* "installed"   (swift sdk install output)
OUT_OK ==
    <<"i","n","s","t","a","l","l","e","d">>

\* "error: bundle is already installed"   (swift sdk install output)
OUT_ALREADY ==
    <<"e","r","r","o","r",":"," ","b","u","n","d","l","e"," ","i","s"," ",
      "a","l","r","e","a","d","y"," ","i","n","s","t","a","l","l","e","d">>

\* "error: checksum mismatch"   (swift sdk install output)
OUT_ERROR ==
    <<"e","r","r","o","r",":"," ","c","h","e","c","k","s","u","m"," ","m",
      "i","s","m","a","t","c","h">>

\* "swift-6.2.3-RELEASE_wasm"   (an SDK bundle present before the run)
BUNDLE_PRE ==
    <<"s","w","i","f","t","-","6",".","2",".","3","-","R","E","L","E","A",
      "S","E","_","w","a","s","m">>

-----------------------------------------------------------------------------
(* What the environment can answer *)

\* compiler tags a toolchain may report; "" is an empty tag
Tags == {ID_RELEASE, ID_BARE, ID_DEV62, ID_DEVMAIN, ID_NODATE, ID_XCODE,
         <<>>}

\* a JSON object with the tag field
TagObject(tag) ==
    [k \in {"target", "swiftCompilerTag"} |->
        IF k = "swiftCompilerTag" THEN tag ELSE <<"w","a","s","m">>]

\* a JSON object without the tag field
NoTagObject == [k \in {"target"} |-> <<"w","a","s","m">>]

\* the JSON object {}
EmptyObject == [k \in {} |-> <<>>]

\* `swiftc -print-target-info`: the command fails (non-zero exit or missing
\* binary), prints something json.loads rejects, prints JSON that is not an
\* object (a non-empty list), or prints a JSON object
TargetInfoOutcomes ==
    {[kind |-> "fail", fields |-> EmptyObject],
     [kind |-> "malformed", fields |-> EmptyObject],
     [kind |-> "nonobject", fields |-> EmptyObject],
     [kind |-> "object", fields |-> EmptyObject],
     [kind |-> "object", fields |-> NoTagObject]}
    \cup {[kind |-> "object", fields |-> TagObject(t)] : t \in Tags}

\* `swiftc --version`: the command fails, or prints a text
VersionOutcomes ==
    {[kind |-> "fail", text |-> <<>>]}
    \cup {[kind |-> "ok", text |-> t] :
            t \in {VO_RELEASE, VO_XCODE, VO_PLAIN, VO_OTHER}}

\* entries of the release catalog
ReleaseEntries ==
    {[name |-> NAME_623, tag |-> TAG_623,
      platforms |-> <<[platform |-> P_STATIC, checksum |-> SUM_C],
                      [platform |-> WASM_SDK, checksum |-> SUM_A]>>],
     [name |-> NAME_623, tag |-> TAG_623,
      platforms |-> <<[platform |-> P_STATIC, checksum |-> SUM_C]>>],
     [name |-> NAME_623, tag |-> TAG_623B,
      platforms |-> <<[platform |-> WASM_SDK, checksum |-> SUM_B]>>]}

\* entries of a per-branch snapshot catalog
SnapshotEntries ==
    {[dir |-> DIR_DEV62, download |-> DL_DEV62, checksum |-> SUM_A],
     [dir |-> DIR_MAIN, download |-> DL_MAIN, checksum |-> SUM_C],
     [dir |-> DIR_BARE, download |-> DL_BARE, checksum |-> SUM_B]}

\* all sequences over S of length at most n
SeqsUpTo(S, n) == UNION {[1..k -> S] : k \in 0..n}

\* fetch_json of the release catalog: None (the fetch or the parse failed) or
\* the list of entries
ReleaseResponses ==
    {None} \cup {Some(c) : c \in SeqsUpTo(ReleaseEntries, MaxReleases)}

\* fetch_json of a per-branch snapshot catalog
SnapshotResponses ==
    {None} \cup {Some(c) : c \in SeqsUpTo(SnapshotEntries, MaxSnapshots)}

\* `swift sdk install ...`: the binary cannot be started, or it exits with a
\* status and its combined output
InstallOutcomes ==
    {[kind |-> "oserror", rc |-> 1, output |-> <<>>]}
    \cup {[kind |-> "exit", rc |-> r, output |-> o] :
            r \in {0, 1}, o \in {OUT_OK, OUT_ALREADY, OUT_ERROR}}

\* the SDK bundles present before the first run
InitialBundles == {<<>>, <<BUNDLE_PRE>>}

-----------------------------------------------------------------------------
(* install-sdk.py: get_swift_version *)

\* the match of r"\((swift-[^)]+)\)" that starts at position i: group 1, or
\* None.  [^)]+ is greedy and ends at the first ")" after "(swift-"; it
\* needs at least one character.
ParenTagAt(s, i) ==
    LET from == i + Len(OPEN_SWIFT)
        closes == {j \in from..Len(s) : s[j] = ")"}
    IN  IF OccursAt(s, i, OPEN_SWIFT) /\ closes # {}
        THEN LET j == CHOOSE j \in closes : \A k \in closes : j <= k
             IN  IF j > from THEN Some(SubSeq(s, i + 1, j - 1)) ELSE None
        ELSE None

\* re.search(r"\((swift-[^)]+)\)", s): group 1 of the leftmost match
RECURSIVE SearchParenTag(_, _)
SearchParenTag(s, i) ==
    IF i > Len(s) THEN None
    ELSE IF ParenTagAt(s, i) # None THEN ParenTagAt(s, i)
         ELSE SearchParenTag(s, i + 1)

\* re.search(r"Swift version ([0-9.]+)", s): group 1 of the leftmost match
RECURSIVE SearchVersionNumber(_, _)
SearchVersionNumber(s, i) ==
    IF i > Len(s) THEN None
    ELSE IF OccursAt(s, i, SWIFT_VERSION)
            /\ RunLen(s, i + Len(SWIFT_VERSION)) > 0
         THEN Some(SubSeq(s, i + Len(SWIFT_VERSION),
                          i + Len(SWIFT_VERSION) - 1
                            + RunLen(s, i + Len(SWIFT_VERSION))))
         ELSE SearchVersionNumber(s, i + 1)

\* first try-block: the tag of -print-target-info, when the output parses
\* and holds the field.  For a non-empty list `in` is false.
TagFromTargetInfo(ti) ==
    IF ti.kind = "object" /\ "swiftCompilerTag" \in DOMAIN ti.fields
    THEN Some(ti.fields["swiftCompilerTag"])
    ELSE None

\* the second try-block as it would be with the two searches in the other
\* order
TagFromVersionNumberFirst(vo) ==
    IF vo.kind # "ok" THEN None
    ELSE IF SearchVersionNumber(vo.text, 1) # None
         THEN SearchVersionNumber(vo.text, 1)
         ELSE SearchParenTag(vo.text, 1)

\* second try-block: parse the output of --version
TagFromVersion(vo) ==
    IF vo.kind # "ok" THEN None
    ELSE IF SearchParenTag(vo.text, 1) # None THEN SearchParenTag(vo.text, 1)
         ELSE SearchVersionNumber(vo.text, 1)

get_swift_version(ti, vo) ==
    IF TagFromTargetInfo(ti) # None THEN TagFromTargetInfo(ti)
    ELSE TagFromVersion(vo)

\* whether get_swift_version runs `swiftc --version`
RunsVersionCommand(ti) == TagFromTargetInfo(ti) = None

-----------------------------------------------------------------------------
(* install-sdk.py: find_release_sdk *)

\* norm_version (vid is the parameter version_id)
NormVersion(vid) ==
    IF StartsWith(vid, SWIFT_PREFIX)
       /\ EndsWith(vid, RELEASE_SUFFIX)
    THEN SubSeq(vid, 7, Len(vid) - 8)
    ELSE vid

ReleaseMatches(release, vid) ==
    release.name = NormVersion(vid) \/ release.tag = vid

\* the inner loop: the first platform entry that is the wasm-sdk, or None
RECURSIVE FirstWasmPlatform(_, _)
FirstWasmPlatform(platforms, j) ==
    IF j > Len(platforms) THEN None
    ELSE IF platforms[j].platform = WASM_SDK THEN Some(platforms[j])
         ELSE FirstWasmPlatform(platforms, j + 1)

\* the outer loop as it would be if it returned None at the first matching
\* entry that has no wasm-sdk platform
RECURSIVE ScanReleasesFirstOnly(_, _, _)
ScanReleasesFirstOnly(releases, vid, i) ==
    IF i > Len(releases) THEN None
    ELSE IF ReleaseMatches(releases[i], vid)
         THEN IF FirstWasmPlatform(releases[i].platforms, 1) # None
              THEN Some([release |-> releases[i],
                         platform |-> FirstWasmPlatform(releases[i].platforms, 1)[1]])
              ELSE None
         ELSE ScanReleasesFirstOnly(releases, vid, i + 1)

\* the outer loop from entry i on: the release and platform the function
\* returns from, or None when the loop runs to its end
RECURSIVE ScanReleases(_, _, _)
ScanReleases(releases, vid, i) ==
    IF i > Len(releases) THEN None
    ELSE IF ReleaseMatches(releases[i], vid)
            /\ FirstWasmPlatform(releases[i].platforms, 1) # None
         THEN Some([release |-> releases[i],
                    platform |-> FirstWasmPlatform(releases[i].platforms, 1)[1]])
         ELSE ScanReleases(releases, vid, i + 1)

ReleaseUrl(release) ==
    RELEASE_DL_BASE \o release.name \o RELEASE_DL_MID \o release.tag
        \o SLASH \o release.tag \o RELEASE_DL_TAIL

\* the hit of find_release_sdk on a response of the release endpoint
ReleaseHit(vid, response) ==
    IF response = None \/ response[1] = <<>> THEN None
    ELSE ScanReleases(response[1], vid, 1)

\* find_release_sdk, given what fetch_json returns
find_release_sdk(vid, response) ==
    LET hit == ReleaseHit(vid, response)
    IN  IF hit = None THEN None
        ELSE Some([url |-> ReleaseUrl(hit[1].release),
                   checksum |-> hit[1].platform.checksum])

-----------------------------------------------------------------------------
(* install-sdk.py: find_dev_sdk *)

\* branches_to_try as it would be with the release branch appended after
\* the version-track branch instead of inserted at the front
BranchesToTryAppended(vid) ==
    LET m1 == SwiftDevelopmentPrefix(vid)
        branch == IF m1 # None
                  THEN SWIFT_PREFIX \o m1[1] \o BRANCH_SUFFIX
                  ELSE MAIN
        m2 == SwiftVersionPrefix(vid)
    IN  IF Contains(vid, DEVELOPMENT) /\ m2 # None
        THEN <<branch, SWIFT_PREFIX \o m2[1] \o RELEASE_BRANCH_SUFFIX, MAIN>>
        ELSE <<branch, MAIN>>

\* branches_to_try
BranchesToTry(vid) ==
    LET m1 == SwiftDevelopmentPrefix(vid)
        branch == IF m1 # None
                  THEN SWIFT_PREFIX \o m1[1] \o BRANCH_SUFFIX
                  ELSE MAIN
        m2 == SwiftVersionPrefix(vid)
    IN  IF Contains(vid, DEVELOPMENT) /\ m2 # None
        THEN <<SWIFT_PREFIX \o m2[1] \o RELEASE_BRANCH_SUFFIX, branch, MAIN>>
        ELSE <<branch, MAIN>>

DevCatalogUrl(b) == DEV_URL_BASE \o b \o DEV_URL_TAIL

\* line 93 as it would be with the first containment test alone
SnapMatchesOneWay(snap, vid) == Contains(vid, snap.dir)

\* line 93: snap["dir"] in version_id or version_id in snap["dir"]
SnapMatches(snap, vid) ==
    Contains(vid, snap.dir) \/ Contains(snap.dir, vid)

\* the loop over one catalog: the first matching entry, or None
RECURSIVE FirstSnapshot(_, _, _)
FirstSnapshot(snapshots, vid, i) ==
    IF i > Len(snapshots) THEN None
    ELSE IF SnapMatches(snapshots[i], vid) THEN Some(snapshots[i])
         ELSE FirstSnapshot(snapshots, vid, i + 1)

\* one iteration of the loop over branches: the entry it returns from, or
\* None when it continues with the next branch
SnapshotHit(vid, response) ==
    IF response = None \/ response[1] = <<>> THEN None
    ELSE FirstSnapshot(response[1], vid, 1)

DevArtifact(snap) ==
    [url |-> DEV_DL_BASE \o snap.dir \o SLASH \o snap.download,
     checksum |-> snap.checksum]

-----------------------------------------------------------------------------
(* State *)

\* a printed line: the format string and the value interpolated into it
Line(text, arg) == [text |-> text, arg |-> arg]

\* the values every run starts from
FreshRun ==
    /\ pc = "start"
    /\ target_info = None
    /\ version_out = None
    /\ version_id = None
    /\ branches_to_try = <<>>
    /\ bidx = 1
    /\ call_site = "none"
    /\ sdk_info = None
    /\ lookups = <<>>
    /\ fetched = <<>>
    /\ installs = <<>>
    /\ swiftc_found = FALSE
    /\ compiler_tag = <<>>
    /\ sdk_list = None
    /\ printed = <<>>
    /\ exit_code = 0

Init ==
    /\ prog \in {"install", "doctor"}
    /\ FreshRun
    /\ installed \in InitialBundles
    /\ prev_install = None

\* sys.exit(code), or main() returning (code 0), or an uncaught exception
\* (code 1)
Exit(code) == pc' = "done" /\ exit_code' = code

-----------------------------------------------------------------------------
(* install-sdk.py: main *)

\* line 102: version_id = get_swift_version()
GetSwiftVersion ==
    /\ prog = "install" /\ pc = "start"
    /\ \E ti \in TargetInfoOutcomes, vo \in VersionOutcomes :
          /\ target_info' = Some(ti)
          /\ version_out' = IF RunsVersionCommand(ti) THEN Some(vo) ELSE None
          /\ version_id' = get_swift_version(ti, vo)
    /\ pc' = "check"
    /\ UNCHANGED <<prog, branches_to_try, bidx, call_site, sdk_info, lookups,
                   fetched, installs, swiftc_found, compiler_tag, sdk_list,
                   printed, exit_code, installed, prev_install>>

\* `not version_id`: None or the empty string
Undetermined(v) == v = None \/ v[1] = <<>>

\* line 108 as it would be with == in place of startswith
InstallRejectsExactly(vid) == vid = VENDOR_PREFIX

\* line 108: version_id.startswith("swiftlang-")
InstallRejectsToolchain(vid) == StartsWith(vid, VENDOR_PREFIX)

\* lines 103-114
CheckVersion ==
    /\ prog = "install" /\ pc = "check"
    /\ IF Undetermined(version_id)
       THEN /\ printed' = Append(printed,
                 Line("Could not determine Swift version from 'swiftc'", <<>>))
            /\ Exit(1)
       ELSE IF InstallRejectsToolchain(version_id[1])
       THEN /\ printed' = printed \o
                 <<Line("Error: Detected Xcode toolchain ({}).", version_id[1]),
                   Line("Swift SDK for WebAssembly requires an OSS toolchain from swift.org.", <<>>),
                   Line("Please install one via 'swiftly' or from the swift.org download page.", <<>>)>>
            /\ Exit(1)
       ELSE /\ printed' = Append(printed,
                 Line("Detected Swift version ID: {}", version_id[1]))
            /\ pc' = "dispatch"
            /\ UNCHANGED exit_code
    /\ UNCHANGED <<prog, target_info, version_out, version_id,
                   branches_to_try, bidx, call_site, sdk_info, lookups,
                   fetched, installs, swiftc_found, compiler_tag, sdk_list,
                   installed, prev_install>>

\* line 117: "-RELEASE" in version_id or re.match(r"^[0-9.]+$", version_id)
RoutesToRelease(vid) == Contains(vid, RELEASE_SUFFIX) \/ IsBareNumeric(vid)

\* lines 116-120, and lines 71-82 of find_dev_sdk when it is the one called
Dispatch ==
    /\ prog = "install" /\ pc = "dispatch"
    /\ IF RoutesToRelease(version_id[1])
       THEN /\ pc' = "find_release"
            /\ call_site' = "dispatch"
            /\ UNCHANGED <<branches_to_try, bidx>>
       ELSE /\ pc' = "find_dev"
            /\ branches_to_try' = BranchesToTry(version_id[1])
            /\ bidx' = 1
            /\ UNCHANGED call_site
    /\ UNCHANGED <<prog, target_info, version_out, version_id, sdk_info,
                   lookups, fetched, installs, swiftc_found, compiler_tag,
                   sdk_list, printed, exit_code, installed, prev_install>>

\* fetch_json prints when the fetch or the parse raises
FetchPrints(url, response) ==
    IF response = None THEN <<Line("Error fetching {}: ...", url)>> ELSE <<>>

\* lines 44-66: find_release_sdk(version_id), called at line 118 or line 126
FindReleaseSdk ==
    /\ prog = "install" /\ pc = "find_release"
    /\ \E response \in ReleaseResponses :
          LET hit == ReleaseHit(version_id[1], response)
              result == find_release_sdk(version_id[1], response)
          IN  /\ fetched' = Append(fetched,
                    [url |-> RELEASES_URL, response |-> response])
              /\ printed' = printed \o FetchPrints(RELEASES_URL, response)
              /\ sdk_info' = result
              /\ lookups' = Append(lookups,
                    [fn |-> "release", site |-> call_site, result |-> result,
                     bundle |-> IF hit = None THEN None
                                ELSE Some(hit[1].release.tag)])
    /\ pc' = IF call_site = "dispatch" THEN "not_found" ELSE "install"
    /\ UNCHANGED <<prog, target_info, version_out, version_id,
                   branches_to_try, bidx, call_site, installs, swiftc_found,
                   compiler_tag, sdk_list, exit_code, installed,
                   prev_install>>

\* lines 84-98: one iteration of the loop over branches_to_try
FindDevSdkFetch ==
    /\ prog = "install" /\ pc = "find_dev"
    /\ bidx <= Len(branches_to_try)
    /\ \E response \in SnapshotResponses :
          LET url == DevCatalogUrl(branches_to_try[bidx])
              hit == SnapshotHit(version_id[1], response)
          IN  /\ fetched' = Append(fetched,
                    [url |-> url, response |-> response])
              /\ printed' = printed \o FetchPrints(url, response)
              /\ IF hit # None
                 THEN /\ sdk_info' = Some(DevArtifact(hit[1]))
                      /\ lookups' = Append(lookups,
                            [fn |-> "dev", site |-> "dispatch",
                             result |-> Some(DevArtifact(hit[1])),
                             bundle |-> Some(hit[1].dir)])
                      /\ pc' = "not_found"
                      /\ UNCHANGED bidx
                 ELSE /\ bidx' = bidx + 1
                      /\ UNCHANGED <<sdk_info, lookups, pc>>
    /\ UNCHANGED <<prog, target_info, version_out, version_id,
                   branches_to_try, call_site, installs, swiftc_found,
                   compiler_tag, sdk_list, exit_code, installed,
                   prev_install>>

\* line 99: the loop over branches_to_try ran to its end
FindDevSdkNone ==
    /\ prog = "install" /\ pc = "find_dev"
    /\ bidx > Len(branches_to_try)
    /\ sdk_info' = None
    /\ lookups' = Append(lookups,
          [fn |-> "dev", site |-> "dispatch", result |-> None,
           bundle |-> None])
    /\ pc' = "not_found"
    /\ UNCHANGED <<prog, target_info, version_out, version_id,
                   branches_to_try, bidx, call_site, fetched, installs,
                   swiftc_found, compiler_tag, sdk_list, printed, exit_code,
                   installed, prev_install>>

\* line 125: not sdk_info and re.search(r"[0-9.]+", version_id)
RetriesRelease(info, vid) == info = None /\ HasVersionChars(vid)

\* lines 122-126
NotFound ==
    /\ prog = "install" /\ pc = "not_found"
    /\ IF sdk_info = None
       THEN /\ printed' = Append(printed,
                 Line("Could not find a matching Wasm SDK for version {}",
                      version_id[1]))
            /\ IF RetriesRelease(sdk_info, version_id[1])
               THEN pc' = "find_release" /\ call_site' = "fallback"
               ELSE pc' = "install" /\ UNCHANGED call_site
       ELSE /\ pc' = "install"
            /\ UNCHANGED <<printed, call_site>>
    /\ UNCHANGED <<prog, target_info, version_out, version_id,
                   branches_to_try, bidx, sdk_info, lookups, fetched,
                   installs, swiftc_found, compiler_tag, sdk_list, exit_code,
                   installed, prev_install>>

\* line 141: "already installed" in output
AlreadyInstalled(output) == Contains(output, ALREADY_INSTALLED)

\* the exit status as it would be without the test of line 141
InstallExitCodeStrict(outcome) ==
    IF outcome.kind = "oserror" THEN 1
    ELSE IF outcome.rc = 0 THEN 0
    ELSE 1

\* the exit status of main() after the install command ended as `outcome`:
\* an OSError is not caught (lines 135-139 catch CalledProcessError only)
InstallExitCode(outcome) ==
    IF outcome.kind = "oserror" THEN 1
    ELSE IF outcome.rc = 0 THEN 0
    ELSE IF AlreadyInstalled(outcome.output) THEN 0
    ELSE 1

\* the catalog entry the resolved artifact came from
ResolvedBundle == lookups[Len(lookups)].bundle[1]

\* what `swift sdk install` does to the installed bundles when it exits 0
AfterInstall(bundles, name) ==
    IF \E k \in 1..Len(bundles) : bundles[k] = name THEN bundles
    ELSE Append(bundles, name)

\* lines 128-146
InstallSdk ==
    /\ prog = "install" /\ pc = "install"
    /\ sdk_info # None
    /\ \E outcome \in InstallOutcomes :
          /\ installs' = Append(installs,
                [url |-> sdk_info[1].url, checksum |-> sdk_info[1].checksum,
                 outcome |-> outcome])
          /\ printed' = printed \o
                <<Line("Found Wasm SDK:", <<>>),
                  Line("  URL: {}", sdk_info[1].url),
                  Line("  Checksum: {}", sdk_info[1].checksum),
                  Line("Running: swift sdk install {} --checksum ...",
                       sdk_info[1].url)>>
                \o (IF outcome.kind = "oserror" THEN <<>>
                    ELSE IF outcome.rc = 0
                    THEN <<Line("{}", outcome.output),
                           Line("Successfully installed Swift SDK for WebAssembly.", <<>>)>>
                    ELSE IF AlreadyInstalled(outcome.output)
                    THEN <<Line("{}", outcome.output),
                           Line("Swift SDK for WebAssembly is already installed.", <<>>)>>
                    ELSE <<Line("Error installing SDK: {}", outcome.output)>>)
          /\ Exit(InstallExitCode(outcome))
          /\ IF outcome.kind = "exit" /\ outcome.rc = 0
             THEN /\ installed' = AfterInstall(installed, ResolvedBundle)
                  /\ prev_install' = Some([id |-> version_id[1],
                                           bundle |-> ResolvedBundle])
             ELSE UNCHANGED <<installed, prev_install>>
    /\ UNCHANGED <<prog, target_info, version_out, version_id,
                   branches_to_try, bidx, call_site, sdk_info, lookups,
                   fetched, swiftc_found, compiler_tag, sdk_list>>

\* lines 147-149
NoSdkFound ==
    /\ prog = "install" /\ pc = "install"
    /\ sdk_info = None
    /\ printed' = Append(printed,
          Line("No matching SDK found. Please install manually from https://www.swift.org/download/", <<>>))
    /\ Exit(1)
    /\ UNCHANGED <<prog, target_info, version_out, version_id,
                   branches_to_try, bidx, call_site, sdk_info, lookups,
                   fetched, installs, swiftc_found, compiler_tag, sdk_list,
                   installed, prev_install>>

-----------------------------------------------------------------------------
(* doctor.py *)

\* lines 17-22: the parsed output, or None
get_target_info(ti) ==
    IF ti.kind \in {"fail", "malformed"} THEN None ELSE Some(ti)

\* line 35 as it would be with `info is None`
NoTargetInfoNoneOnly(info) == info = None

\* `not info`: None or the empty object (the non-empty list is truthy)
NoTargetInfo(info) ==
    info = None \/ (info[1].kind = "object" /\ DOMAIN info[1].fields = {})

\* line 39: info.get("swiftCompilerTag", "")
CompilerTagOf(info) ==
    IF "swiftCompilerTag" \in DOMAIN info.fields
    THEN info.fields["swiftCompilerTag"] ELSE <<>>

\* line 40: compiler_tag.startswith("swiftlang-")
DoctorRejectsToolchain(tag) == StartsWith(tag, VENDOR_PREFIX)

\* line 62: tag_core
TagCore(tag) == Remove(Remove(tag, SWIFT_PREFIX), RELEASE_SUFFIX)

\* lines 64-79: whether the SDK check passes
SdkCheckPasses(tag, list) ==
    IF TagCore(tag) = <<>> THEN Contains(Lower(list), WASM)
    ELSE Contains(list, TagCore(tag))

\* the output of `swift sdk list`: one installed bundle per line
RECURSIVE Listing(_)
Listing(bundles) ==
    IF bundles = <<>> THEN <<>>
    ELSE Head(bundles) \o <<"\n">> \o Listing(Tail(bundles))

\* lines 8-15: check_cmd prints what it found
CheckCmdLine(found, name) ==
    IF found THEN Line("[OK] {} found", name)
    ELSE Line("[ERROR] {} not found", name)

\* lines 25-31
CheckSwiftc ==
    /\ prog = "doctor" /\ pc = "start"
    /\ \E found \in BOOLEAN :
          /\ swiftc_found' = found
          /\ IF found
             THEN /\ printed' = printed \o
                       <<Line("Checking environment for Swift WebAssembly development...", <<>>),
                         CheckCmdLine(TRUE, <<"s","w","i","f","t","c">>)>>
                  /\ pc' = "toolchain"
                  /\ UNCHANGED exit_code
             ELSE /\ printed' = printed \o
                       <<Line("Checking environment for Swift WebAssembly development...", <<>>),
                         CheckCmdLine(FALSE, <<"s","w","i","f","t","c">>),
                         Line("   Please install Swift from https://www.swift.org/install/ or via 'swiftly'.", <<>>)>>
                  /\ Exit(1)
    /\ UNCHANGED <<prog, target_info, version_out, version_id,
                   branches_to_try, bidx, call_site, sdk_info, lookups,
                   fetched, installs, compiler_tag, sdk_list, installed,
                   prev_install>>

\* lines 34-48.  On a JSON value that is not an object, info.get raises
\* AttributeError, which nothing catches.
CheckToolchain ==
    /\ prog = "doctor" /\ pc = "toolchain"
    /\ \E ti \in TargetInfoOutcomes :
          LET info == get_target_info(ti)
          IN  /\ target_info' = Some(ti)
              /\ IF NoTargetInfo(info)
                 THEN /\ printed' = Append(printed,
                           Line("[ERROR] Failed to get Swift target info.", <<>>))
                      /\ Exit(1)
                      /\ UNCHANGED compiler_tag
                 ELSE IF info[1].kind = "nonobject"
                 THEN /\ Exit(1)
                      /\ UNCHANGED <<printed, compiler_tag>>
                 ELSE /\ compiler_tag' = CompilerTagOf(info[1])
                      /\ IF DoctorRejectsToolchain(compiler_tag')
                         THEN /\ printed' = printed \o
                                   <<Line("[ERROR] Detected Xcode toolchain ({}).", compiler_tag'),
                                     Line("   Swift SDK for WebAssembly requires an OSS toolchain from swift.org.", <<>>),
                                     Line("   Please use 'swiftly use' or select an OSS toolchain in your environment.", <<>>)>>
                              /\ Exit(1)
                         ELSE IF compiler_tag' # <<>>
                         THEN /\ printed' = Append(printed,
                                   Line("[OK] OSS toolchain detected ({})", compiler_tag'))
                              /\ pc' = "node"
                              /\ UNCHANGED exit_code
                         ELSE /\ printed' = Append(printed,
                                   Line("[WARNING] Could not determine Swift compiler tag. Assuming OSS toolchain.", <<>>))
                              /\ pc' = "node"
                              /\ UNCHANGED exit_code
    /\ UNCHANGED <<prog, version_out, version_id, branches_to_try, bidx,
                   call_site, sdk_info, lookups, fetched, installs,
                   swiftc_found, sdk_list, installed, prev_install>>

\* lines 51-52: the results are printed and not used
CheckNode ==
    /\ prog = "doctor" /\ pc = "node"
    /\ \E node \in BOOLEAN, npm \in BOOLEAN :
          printed' = printed \o
              <<CheckCmdLine(node, <<"n","o","d","e">>),
                CheckCmdLine(npm, <<"n","p","m">>)>>
    /\ pc' = "sdk"
    /\ UNCHANGED <<prog, target_info, version_out, version_id,
                   branches_to_try, bidx, call_site, sdk_info, lookups,
                   fetched, installs, swiftc_found, compiler_tag, sdk_list,
                   exit_code, installed, prev_install>>

\* lines 55-82: `swift sdk list` fails (sdk_list = "") or lists the installed
\* bundles
CheckSdk ==
    /\ prog = "doctor" /\ pc = "sdk"
    /\ \E listed \in BOOLEAN :
          LET list == IF listed THEN Listing(installed) ELSE <<>>
          IN  /\ sdk_list' = Some([listed |-> listed, text |-> list])
              /\ IF SdkCheckPasses(compiler_tag, list)
                 THEN /\ printed' = printed \o
                           <<IF TagCore(compiler_tag) = <<>>
                             THEN Line("[OK] Swift SDK for WebAssembly detected (general check)", <<>>)
                             ELSE Line("[OK] Matching Swift SDK for WebAssembly found ({})",
                                       TagCore(compiler_tag)),
                             Line("Environment is ready for Swift WebAssembly development!", <<>>)>>
                      /\ Exit(0)
                 ELSE /\ printed' = printed \o
                           <<IF TagCore(compiler_tag) = <<>>
                             THEN Line("[ERROR] Swift SDK for WebAssembly not found.", <<>>)
                             ELSE Line("[ERROR] No matching Swift SDK for WebAssembly found for toolchain {}.",
                                       compiler_tag),
                             IF TagCore(compiler_tag) = <<>>
                             THEN Line("   Please run './scripts/install-sdk.py' to install it.", <<>>)
                             ELSE Line("   Please run './scripts/install-sdk.py' to automatically install the matching SDK.", <<>>)>>
                      /\ Exit(1)
    /\ UNCHANGED <<prog, target_info, version_out, version_id,
                   branches_to_try, bidx, call_site, sdk_info, lookups,
                   fetched, installs, swiftc_found, compiler_tag, installed,
                   prev_install>>

\* lines 84-85: doctor.py is run after a run of install-sdk.py has ended;
\* only the installed bundles carry over
DoctorAfterInstall ==
    /\ prog = "install" /\ pc = "done"
    /\ prog' = "doctor"
    /\ pc' = "start"
    /\ target_info' = None
    /\ version_out' = None
    /\ version_id' = None
    /\ branches_to_try' = <<>>
    /\ bidx' = 1
    /\ call_site' = "none"
    /\ sdk_info' = None
    /\ lookups' = <<>>
    /\ fetched' = <<>>
    /\ installs' = <<>>
    /\ swiftc_found' = FALSE
    /\ compiler_tag' = <<>>
    /\ sdk_list' = None
    /\ printed' = <<>>
    /\ exit_code' = 0
    /\ UNCHANGED <<installed, prev_install>>

-----------------------------------------------------------------------------
(* Specification *)

Next ==
    \/ GetSwiftVersion
    \/ CheckVersion
    \/ Dispatch
    \/ FindReleaseSdk
    \/ FindDevSdkFetch
    \/ FindDevSdkNone
    \/ NotFound
    \/ InstallSdk
    \/ NoSdkFound
    \/ CheckSwiftc
    \/ CheckToolchain
    \/ CheckNode
    \/ CheckSdk
    \/ DoctorAfterInstall

Spec == Init /\ [][Next]_vars

-----------------------------------------------------------------------------
(* Properties *)

\* the smallest element of a non-empty set of numbers
Least(S) == CHOOSE n \in S : \A m \in S : n <= m

\* the run has detected a compiler identity that begins with "swiftlang-"
VendorDetected ==
    \/ prog = "install" /\ version_id # None
                        /\ StartsWith(version_id[1], VENDOR_PREFIX)
    \/ prog = "doctor" /\ StartsWith(compiler_tag, VENDOR_PREFIX)

\* C1: in both scripts, once the detected identity begins with "swiftlang-"
\* the run makes no catalog fetch, no lookup and no install, goes nowhere
\* but to its end, and ends with exit code 1.
C1_VendorRejected ==
    VendorDetected =>
        /\ fetched = <<>> /\ lookups = <<>> /\ installs = <<>>
        /\ pc \in {"check", "done"}
        /\ pc = "done" => exit_code = 1

\* C1 witness: doctor.py has read the Xcode tag and ended with exit code 1
\* without a fetch.
C1_Witness ==
    /\ prog = "doctor" /\ pc = "done" /\ compiler_tag = ID_XCODE
    /\ exit_code = 1 /\ fetched = <<>>

\* the last lookup made was a release lookup
ReleaseLookupDone == lookups # <<>> /\ lookups[Len(lookups)].fn = "release"

\* the response the last fetch got
LastResponse == fetched[Len(fetched)].response

\* entries of a release catalog that match the identity by name or by tag
MatchingReleases(cat, vid) ==
    {i \in 1..Len(cat) :
        cat[i].name = NormVersion(vid) \/ cat[i].tag = vid}

\* positions of the wasm-sdk platform entries of a release
WasmPlatforms(release) ==
    {j \in 1..Len(release.platforms) :
        release.platforms[j].platform = WASM_SDK}

\* the artifact built from a release and one of its platform entries
ArtifactOf(release, j) ==
    [url |-> RELEASE_DL_BASE \o release.name \o RELEASE_DL_MID
               \o release.tag \o SLASH \o release.tag \o RELEASE_DL_TAIL,
     checksum |-> release.platforms[j].checksum]

\* C2 as stated: the result of a release lookup is decided by the first
\* entry, in catalog order, that matches by name or tag: its wasm-sdk
\* artifact, or NotFound when that entry has no wasm-sdk platform.
C2_FirstMatchAlone ==
    ReleaseLookupDone =>
        LET vid == version_id[1]
            result == lookups[Len(lookups)].result
            cat == IF LastResponse = None THEN <<>> ELSE LastResponse[1]
            matching == MatchingReleases(cat, vid)
        IN  IF matching = {} \/ WasmPlatforms(cat[Least(matching)]) = {}
            THEN result = None
            ELSE result = Some(ArtifactOf(cat[Least(matching)],
                               Least(WasmPlatforms(cat[Least(matching)]))))

\* C2 amended: the result of a release lookup is decided by the first entry,
\* in catalog order, that matches by name or tag and has a wasm-sdk
\* platform: the artifact of its first wasm-sdk platform entry; NotFound
\* when the fetch fails or no matching entry has a wasm-sdk platform.
C2_FirstMatchWithWasm ==
    ReleaseLookupDone =>
        LET vid == version_id[1]
            result == lookups[Len(lookups)].result
            cat == IF LastResponse = None THEN <<>> ELSE LastResponse[1]
            usable == {i \in MatchingReleases(cat, vid) :
                          WasmPlatforms(cat[i]) # {}}
        IN  IF usable = {}
            THEN result = None
            ELSE result = Some(ArtifactOf(cat[Least(usable)],
                               Least(WasmPlatforms(cat[Least(usable)]))))

\* C2 witness: the first matching entry has no wasm-sdk platform and the
\* lookup returned the artifact of a later matching entry.
C2_Witness ==
    /\ ReleaseLookupDone
    /\ LastResponse # None
    /\ Len(LastResponse[1]) = 2
    /\ 1 \in MatchingReleases(LastResponse[1], version_id[1])
    /\ WasmPlatforms(LastResponse[1][1]) = {}
    /\ lookups[Len(lookups)].result
         = Some(ArtifactOf(LastResponse[1][2], 1))

\* the fetches of per-branch snapshot catalogs, in the order made
DevFetches == SelectSeq(fetched, LAMBDA f : f.url # RELEASES_URL)

\* lengths n for which the identity reads swift-<n characters of
\* [0-9.]>-DEVELOPMENT...
DevVersionLengths(vid) ==
    {n \in 1..Len(vid) :
        /\ StartsWith(vid, SWIFT_PREFIX)
        /\ Len(SWIFT_PREFIX) + n <= Len(vid)
        /\ \A i \in 1..n : vid[Len(SWIFT_PREFIX) + i] \in VersionChars
        /\ OccursAt(vid, Len(SWIFT_PREFIX) + n + 1, DASH_DEVELOPMENT)}

\* the catalog endpoints of swift-<version>-release, swift-<version>-branch
\* and main, for the version that takes the first n characters after swift-
CandidateUrls(vid, n) ==
    LET version == SubSeq(vid, Len(SWIFT_PREFIX) + 1, Len(SWIFT_PREFIX) + n)
    IN  <<DEV_URL_BASE \o SWIFT_PREFIX \o version \o RELEASE_BRANCH_SUFFIX
             \o DEV_URL_TAIL,
          DEV_URL_BASE \o SWIFT_PREFIX \o version \o BRANCH_SUFFIX
             \o DEV_URL_TAIL,
          DEV_URL_BASE \o MAIN \o DEV_URL_TAIL>>

\* positions of the entries of a snapshot response whose dir is contained in
\* the identity, or contains it (none for a failed fetch)
MatchingSnapshots(response, vid) ==
    IF response = None THEN {}
    ELSE {i \in 1..Len(response[1]) :
             \/ Contains(vid, response[1][i].dir)
             \/ Contains(response[1][i].dir, vid)}

\* the snapshot lookup has returned
DevLookupDone == lookups # <<>> /\ lookups[1].fn = "dev"

\* C3: for an identity swift-<version>-DEVELOPMENT..., the snapshot catalogs
\* are fetched in the order swift-<version>-release, swift-<version>-branch,
\* main; a fetch is followed by another only if it failed, was empty or
\* held no matching entry; a fetch with a matching entry ends the lookup
\* with an artifact of that catalog; NotFound is returned only after all
\* three candidates were fetched without a match.
C3_CandidateOrder ==
    (prog = "install" /\ version_id # None
        /\ DevVersionLengths(version_id[1]) # {}) =>
        LET vid == version_id[1]
            urls == CandidateUrls(vid, Least(DevVersionLengths(vid)))
            n == Len(DevFetches)
        IN  /\ n <= 3
            /\ \A k \in 1..n : DevFetches[k].url = urls[k]
            /\ \A k \in 1..n :
                  MatchingSnapshots(DevFetches[k].response, vid) # {} =>
                      /\ k = n
                      /\ DevLookupDone
                      /\ lookups[1].result # None
                      /\ \E i \in MatchingSnapshots(DevFetches[k].response, vid) :
                            lookups[1].result[1].checksum
                                = DevFetches[k].response[1][i].checksum
            /\ (DevLookupDone /\ lookups[1].result = None) =>
                  /\ n = 3
                  /\ \A k \in 1..n :
                        MatchingSnapshots(DevFetches[k].response, vid) = {}
            /\ (DevLookupDone /\ lookups[1].result # None) =>
                  /\ n >= 1
                  /\ MatchingSnapshots(DevFetches[n].response, vid) # {}

\* C3 witness: the release branch failed to load, the version-track branch
\* was empty, and main held the match.
C3_Witness ==
    /\ prog = "install" /\ version_id = Some(ID_DEV62)
    /\ DevLookupDone /\ lookups[1].result # None
    /\ Len(DevFetches) = 3
    /\ DevFetches[1].response = None
    /\ DevFetches[2].response = Some(<<>>)
    /\ DevFetches[3].url = DEV_URL_BASE \o MAIN \o DEV_URL_TAIL

C5_InstallOnce ==
    prog = "install" =>
        /\ installs # <<>> => (pc = "done" /\ sdk_info # None)
        /\ (pc = "done" /\ sdk_info # None) =>
              /\ Len(installs) = 1
              /\ installs[1].url = sdk_info[1].url
              /\ installs[1].checksum = sdk_info[1].checksum
              /\ LET o == installs[1].outcome
                 IN  o.kind = "exit" =>
                        exit_code =
                           IF o.rc = 0 THEN 0
                           ELSE IF \E i \in 0..(Len(o.output) - Len(ALREADY_INSTALLED)) :
                                      SubSeq(o.output, i + 1, i + Len(ALREADY_INSTALLED))
                                         = ALREADY_INSTALLED
                                THEN 0
                                ELSE 1

\* C5 witness: the command exited non-zero saying "already installed" and
\* the run ended with exit code 0.
C5_Witness ==
    /\ prog = "install" /\ pc = "done" /\ sdk_info # None
    /\ Len(installs) = 1
    /\ installs[1].outcome = [kind |-> "exit", rc |-> 1, output |-> OUT_ALREADY]
    /\ exit_code = 0

Digits == {"0","1","2","3","4","5","6","7","8","9"}

\* the lookups made from the fallback call of line 126
FallbackLookups == SelectSeq(lookups, LAMBDA l : l.site = "fallback")

\* C6 as stated: in a finished install-sdk run that got as far as a lookup,
\* the release-lookup fallback was made exactly when dispatch chose the
\* snapshot lookup, that lookup returned NotFound and the identity contains
\* a digit; it was made at most once, and an artifact it found is the one
\* installed.
C6_FallbackOnlyAfterSnapshot ==
    (prog = "install" /\ pc = "done" /\ lookups # <<>>) =>
        LET vid == version_id[1]
            expected == /\ lookups[1].fn = "dev"
                        /\ lookups[1].result = None
                        /\ \E i \in 1..Len(vid) : vid[i] \in Digits
        IN  /\ FallbackLookups # <<>> <=> expected
            /\ Len(FallbackLookups) <= 1
            /\ \A k \in 1..Len(FallbackLookups) :
                  /\ FallbackLookups[k].fn = "release"
                  /\ FallbackLookups[k].result # None =>
                        /\ Len(installs) = 1
                        /\ installs[1].url = FallbackLookups[k].result[1].url
                        /\ installs[1].checksum
                             = FallbackLookups[k].result[1].checksum

\* the answer of -print-target-info leaves the identity undetermined, as C7
\* lists it: the call fails, its output is malformed or empty, or the
\* compiler-tag field is absent or empty
TargetInfoUndetermined(ti) ==
    \/ ti.kind \in {"fail", "malformed"}
    \/ /\ ti.kind = "object"
       /\ \/ "swiftCompilerTag" \notin DOMAIN ti.fields
          \/ ti.fields["swiftCompilerTag"] = <<>>

\* doctor.py has printed its warning about the compiler tag
Warned ==
    \E k \in 1..Len(printed) :
        printed[k].text
          = "[WARNING] Could not determine Swift compiler tag. Assuming OSS toolchain."

\* C7 as stated: when -print-target-info leaves the identity undetermined,
\* install-sdk.py exits 1 before any fetch or install, and doctor.py prints
\* the warning and goes on to the Node.js/npm checks and the SDK check.
C7_UndeterminedAsStated ==
    (target_info # None /\ TargetInfoUndetermined(target_info[1])) =>
        /\ prog = "install" =>
              /\ fetched = <<>> /\ installs = <<>>
              /\ pc \in {"check", "done"}
              /\ pc = "done" => exit_code = 1
        /\ prog = "doctor" =>
              /\ Warned
              /\ pc \in {"node", "sdk", "done"}
              /\ pc = "done" => sdk_list # None

\* at position i the text holds "(swift-", then one or more characters
\* other than ")", then ")"
ParenTagStartsAt(text, i) ==
    /\ OccursAt(text, i, OPEN_SWIFT)
    /\ \E j \in (i + Len(OPEN_SWIFT) + 1)..Len(text) :
          /\ text[j] = ")"
          /\ \A k \in (i + Len(OPEN_SWIFT))..(j - 1) : text[k] # ")"

HasParenTag(text) == \E i \in 1..Len(text) : ParenTagStartsAt(text, i)

\* the text holds "Swift version " followed by a digit or a dot
HasVersionNumber(text) ==
    \E i \in 1..Len(text) :
        /\ OccursAt(text, i, SWIFT_VERSION)
        /\ i + Len(SWIFT_VERSION) <= Len(text)
        /\ text[i + Len(SWIFT_VERSION)] \in VersionChars

\* `swiftc --version` was run and gave no identity
VersionCommandGivesNothing ==
    /\ version_out # None
    /\ \/ version_out[1].kind = "fail"
       \/ /\ ~HasParenTag(version_out[1].text)
          /\ ~HasVersionNumber(version_out[1].text)

\* C7 amended: install-sdk.py exits 1 before any fetch or install when the
\* compiler-tag field is present and empty, or when the field is not
\* obtained (the call fails, the output is malformed or empty, the field is
\* absent) and the version command fails or yields no tag and no number; if
\* the version command yields an identity, install-sdk.py goes on with it.
\* doctor.py prints the warning and goes on to the Node.js/npm and SDK
\* checks when the output is a non-empty object whose compiler-tag field is
\* absent or empty; when the call fails or the output is malformed or an
\* empty object, it exits 1 at that point without the warning.
C7_UndeterminedAmended ==
    (target_info # None /\ TargetInfoUndetermined(target_info[1])) =>
        LET ti == target_info[1]
            tagged == ti.kind = "object"
                      /\ "swiftCompilerTag" \in DOMAIN ti.fields
        IN  /\ (prog = "install" /\ (tagged \/ VersionCommandGivesNothing)) =>
                  /\ fetched = <<>> /\ installs = <<>>
                  /\ pc \in {"check", "done"}
                  /\ pc = "done" => exit_code = 1
            /\ (prog = "install" /\ ~tagged /\ ~VersionCommandGivesNothing) =>
                  /\ version_id # None /\ version_id[1] # <<>>
                  /\ pc # "done" \/ lookups # <<>>
                        \/ StartsWith(version_id[1], VENDOR_PREFIX)
            /\ (prog = "doctor" /\ ti.kind = "object"
                    /\ DOMAIN ti.fields # {}) =>
                  /\ Warned
                  /\ pc \in {"node", "sdk", "done"}
                  /\ pc = "done" => sdk_list # None
            /\ (prog = "doctor"
                    /\ (ti.kind # "object" \/ DOMAIN ti.fields = {})) =>
                  /\ ~Warned
                  /\ pc = "done" /\ exit_code = 1
                  /\ sdk_list = None

\* C7 witness: doctor.py got an object without the tag field, warned, and
\* finished the SDK check.
C7_Witness ==
    /\ prog = "doctor" /\ pc = "done"
    /\ target_info = Some([kind |-> "object", fields |-> NoTagObject])
    /\ Warned /\ sdk_list # None

\* C8 as stated: in one run no catalog endpoint is fetched twice.
C8_NoRefetch ==
    \A i \in 1..Len(fetched), j \in 1..Len(fetched) :
        i < j => fetched[i].url # fetched[j].url

\* g is group 1 of the leftmost "(swift-...)" of the text
IsFirstParenTag(text, g) ==
    /\ StartsWith(g, SWIFT_PREFIX) /\ Len(g) > Len(SWIFT_PREFIX)
    /\ \A k \in 1..Len(g) : g[k] # ")"
    /\ \E i \in 1..Len(text) :
          /\ OccursAt(text, i, <<"(">> \o g \o <<")">>)
          /\ \A h \in 1..(i - 1) : ~ParenTagStartsAt(text, h)

\* g is the longest run of [0-9.] after the leftmost "Swift version " that
\* a digit or dot follows
IsFirstVersionNumber(text, g) ==
    /\ Len(g) > 0 /\ \A k \in 1..Len(g) : g[k] \in VersionChars
    /\ \E i \in 1..Len(text) :
          /\ OccursAt(text, i, SWIFT_VERSION \o g)
          /\ \/ i + Len(SWIFT_VERSION) + Len(g) > Len(text)
             \/ text[i + Len(SWIFT_VERSION) + Len(g)] \notin VersionChars
          /\ \A h \in 1..(i - 1) :
                ~(OccursAt(text, h, SWIFT_VERSION)
                  /\ h + Len(SWIFT_VERSION) <= Len(text)
                  /\ text[h + Len(SWIFT_VERSION)] \in VersionChars)

\* C9: get_swift_version returns the swiftCompilerTag field when the
\* target-info output parses and holds it, without running the version
\* command; otherwise it runs the version command and returns the
\* parenthesized swift-... token if there is one, else the number after
\* "Swift version", else None; and None when the version command fails.
\* It always returns: main() goes on to its check of version_id.
C9_FirstSuccessChain ==
    (prog = "install" /\ pc # "start") =>
        LET ti == target_info[1]
            tagged == ti.kind = "object"
                      /\ "swiftCompilerTag" \in DOMAIN ti.fields
        IN  /\ target_info # None
            /\ tagged =>
                  /\ version_id = Some(ti.fields["swiftCompilerTag"])
                  /\ version_out = None
            /\ ~tagged =>
                  /\ version_out # None
                  /\ LET vo == version_out[1]
                     IN  IF vo.kind = "fail" THEN version_id = None
                         ELSE IF HasParenTag(vo.text)
                         THEN /\ version_id # None
                              /\ IsFirstParenTag(vo.text, version_id[1])
                         ELSE IF HasVersionNumber(vo.text)
                         THEN /\ version_id # None
                              /\ IsFirstVersionNumber(vo.text, version_id[1])
                         ELSE version_id = None

\* C9 witness: target-info failed, the version output of an Xcode toolchain
\* has no "(swift-...)" token, and the number after "Swift version" was
\* returned.
C9_Witness ==
    /\ prog = "install" /\ pc = "check"
    /\ target_info = Some([kind |-> "fail", fields |-> EmptyObject])
    /\ version_out = Some([kind |-> "ok", text |-> VO_XCODE])
    /\ version_id = Some(<<"5",".","9">>)

\* C10 as stated: after an install-sdk.py run that resolved and installed
\* an artifact for identity I, a doctor.py run that finds swiftc, reads the
\* same tag I and gets the list of installed bundles (each under the tag or
\* dir of its catalog entry) passes the SDK check and exits 0.
C10_DoctorAfterInstallPasses ==
    (/\ prog = "doctor" /\ pc = "done"
     /\ prev_install # None
     /\ swiftc_found
     /\ target_info # None
     /\ target_info[1].kind = "object"
     /\ "swiftCompilerTag" \in DOMAIN target_info[1].fields
     /\ target_info[1].fields["swiftCompilerTag"] = prev_install[1].id
     /\ sdk_list # None /\ sdk_list[1].listed) =>
        exit_code = 0

=============================================================================
